---- MODULE Spec2Model ----
(***************************************************************************)
(* Model of the OData batch engine of python-odata:                        *)
(*   odata/batchcontext.py  BatchContext (coordinator and correlator)      *)
(*   odata/changeset.py     Change, ActionChange, FunctionChange, ChangeSet*)
(*                                                                         *)
(* A BatchContext is single-threaded: every public method is one atomic    *)
(* action, except execute, which blocks in the transport between clearing  *)
(* the queue and correlating the response (pc = "sending").                *)
(***************************************************************************)
EXTENDS Integers, Sequences, FiniteSets, TLC

VARIABLES
    _parts,                     \* BatchContext._parts: list of ChangeSet references
    _changeset,                 \* BatchContext._changeset: reference or None
    _content_id_to_entity_map,  \* BatchContext._content_id_to_entity_map
    heap,                       \* the live ChangeSet objects, by boundary
    uuid,                       \* number of changeset boundaries drawn so far
    es,                         \* entity.__odata__ of every entity
    pc,                         \* "idle", or "sending" inside execute
    snapshot,                   \* execute's local content_id_to_entity_map
    wire,                       \* the payload handed to the transport
    cb_log,                     \* completion callbacks invoked so far in this execute
    ret                         \* outcome of the last call

vars == <<_parts, _changeset, _content_id_to_entity_map, heap, uuid, es, pc,
          snapshot, wire, cb_log, ret>>

queue == <<_parts, _changeset, _content_id_to_entity_map, heap>>

-----------------------------------------------------------------------------
(* Bounds of the model *)

\* changesets a coordinator creates over its life
MaxChangeSets == 2
\* operations queued in one batch
MaxChanges == 2
\* entries of an arbitrary response list
MaxResp == 2
\* pairs queued before the execute whose correlation is examined
MaxPairs == 2

-----------------------------------------------------------------------------
(* Values *)

None == "None"
NoMap == <<>>
NoCid == <<>>
\* None where a ChangeSet reference is expected
NoChangeSet == <<>>

\* a, b: new entities (an Author, a Book); p, q: entities read from the service
\* (Authors), q without an instance URL
Entities == {"a", "b", "p", "q"}

\* entity.__odata_schema__['type']
EntityType(e) == IF e = "b" THEN "Book" ELSE "Author"

\* es.navigation_properties: (attribute, NavigationProperty) pairs of a type
NavigationProperties(t) ==
    IF t = "Author"
    THEN << [name |-> "Books", navigated_property_type |-> "Book", foreign_key |-> None] >>
    ELSE << [name |-> "Author", navigated_property_type |-> "Author", foreign_key |-> "AuthorId"] >>

\* entity.__odata_url__()[len(service.url) - 1:]
EntitySetUrl(e) == IF EntityType(e) = "Book" THEN <<"/Books">> ELSE <<"/Authors">>

\* a test for '@' that no key passes
StartsWithAt_never(k) == FALSE

\* str.startswith on the keys that occur
StartsWithOData(k) == k \in {"@odata.etag", "@odata.type", "@odata.context"}
StartsWithAt(k) == k \in {"@odata.etag", "@odata.type", "@odata.context", "@type"}

\* dict.update
DictUpdate(d, other) ==
    [k \in (DOMAIN d) \cup (DOMAIN other) |-> IF k \in DOMAIN other THEN other[k] ELSE d[k]]

\* dict without one key (dict.pop)
DictPop(d, key) == [k \in (DOMAIN d) \ {key} |-> d[k]]

\* dict restricted to a set of keys
DictOnly(d, keys) == [k \in (DOMAIN d) \cap keys |-> d[k]]

Last(s) == s[Len(s)]

RECURSIVE Concat(_)
Concat(ss) == IF Len(ss) = 0 THEN <<>> ELSE Head(ss) \o Concat(Tail(ss))

-----------------------------------------------------------------------------
(* Entity state (odata/state.py): the collaborator the engine drives *)

InitialData(e) ==
    IF EntityType(e) = "Book"
    THEN [title |-> "loc", AuthorId |-> "null"]
    ELSE [name |-> "loc"]

\* es.data_for_insert(): the complete entity
data_for_insert(e) == es[e].data

\* es.data_for_update(): the type annotation and the changed fields
data_for_update(e) ==
    DictUpdate(("@odata.type" :> EntityType(e)), DictOnly(es[e].data, es[e].dirty))

\* es.reset(): forget the dirty fields
EsReset(s) == [s EXCEPT !.dirty = {}]

\* es.update(mapping): apply field values
EsUpdate(s, values) == [s EXCEPT !.data = DictUpdate(s.data, values)]

\* Context.is_entity_saved
is_entity_saved(e) == es[e].persisted

-----------------------------------------------------------------------------
(* odata/changeset.py *)

CREATE == "POST"
UPDATE == "PATCH"
DELETE == "DELETE"

\* Change.__init__
Change(url, data, action) ==
    [kind |-> "Change", target |-> url, data |-> data, method |-> action, content_id |-> NoCid]

\* ActionChange.__init__
ActionChange(action, kwargs) ==
    [kind |-> "ActionChange", target |-> <<action>>, data |-> kwargs, method |-> None,
     content_id |-> NoCid]

\* FunctionChange.__init__
FunctionChange(function) ==
    [kind |-> "FunctionChange", target |-> <<function>>, data |-> NoMap, method |-> None,
     content_id |-> NoCid]

\* ChangeSet.__init__ with the boundary 'changeset_<uuid>'
NewChangeSet(n) == [boundary |-> <<"changeset", n>>, _changes |-> <<>>, _callbacks |-> <<>>]

\* '%s-%s' % (self.boundary, len(self._changes))
ContentId(boundary, n) == <<boundary, n>>

\* add_change that numbers from the length before the append
add_change_zero_based(cs, change, callback) ==
    LET cid == ContentId(cs.boundary, Len(cs._changes))
    IN  [cs EXCEPT !._changes = Append(@, [change EXCEPT !.content_id = cid]),
                   !._callbacks = Append(@, callback)]

\* ChangeSet.add_change: the changeset after the call; the id it returns is
\* the content_id of its last change
add_change(cs, change, callback) ==
    LET changes == Append(cs._changes, change)
        cid == ContentId(cs.boundary, Len(changes))
    IN  [cs EXCEPT !._changes = [changes EXCEPT ![Len(changes)].content_id = cid],
                   !._callbacks = Append(cs._callbacks, callback)]

\* the id of the first change instead of the one just added
AddedContentId_first(cs) == Head(cs._changes).content_id

\* the id add_change returns
AddedContentId(cs) == Last(cs._changes).content_id

-----------------------------------------------------------------------------
(* Payload (Change.get_payload, ChangeSet.get_payload, _get_payload).       *)
(* A payload is the sequence of its lines; '\n'.join concatenates them and  *)
(* the closing replace('\n', '\r\n') changes the terminator of every line.  *)

\* urllib.parse.quote: '$', '(' and ')' are escaped, '/' and the characters
\* of a content id are kept
Quote(url) ==
    IF Len(url) = 4 THEN <<"%24">> \o Tail(url)
    ELSE IF url = <<"/Authors(1)">> THEN <<"/Authors%281%29">>
    ELSE url

\* base_headers plus Content-ID, then the blank line
HeaderLines(change) ==
    << <<"Content-Type", "application/http">>,
       <<"Content-Transfer-Encoding", "binary">>,
       <<"Content-ID", change.content_id>>,
       <<"">> >>

\* Change.get_payload / ActionChange.get_payload / FunctionChange.get_payload
ChangeGetPayload(change) ==
    IF change.kind = "Change"
    THEN HeaderLines(change) \o
         << <<change.method, Quote(change.target), "HTTP/1.1">>,
            <<"Host", "hostname">>,
            <<"Content-Type", "application/json;type=entry">>,
            <<"">>,
            <<"json", change.data>> >>
    ELSE IF change.kind = "ActionChange"
    THEN HeaderLines(change) \o
         << <<"POST", <<"/">> \o change.target, "HTTP/1.1">>,
            <<"Host", "hostname">>,
            <<"Content-Type", "application/json;type=entry">>,
            <<"">>,
            <<"json", change.data>> >>
    ELSE HeaderLines(change) \o
         << <<"GET", <<"service/">> \o change.target, "HTTP/1.1">>,
            <<"Host", "hostname">>,
            <<"">> >>

\* a changeset payload that leaves out the first operation
ChangeSetGetPayload_skips_first(cs) ==
    << <<"Content-Type", "multipart/mixed;boundary=", cs.boundary>>, <<"">> >>
    \o Concat([i \in 1..(Len(cs._changes) - 1) |->
                  << <<"--", cs.boundary>> >> \o ChangeGetPayload(cs._changes[i + 1])])
    \o << <<"--", cs.boundary, "--">> >>

\* ChangeSet.get_payload
ChangeSetGetPayload(cs) ==
    << <<"Content-Type", "multipart/mixed;boundary=", cs.boundary>>, <<"">> >>
    \o Concat([i \in 1..Len(cs._changes) |->
                  << <<"--", cs.boundary>> >> \o ChangeGetPayload(cs._changes[i])])
    \o << <<"--", cs.boundary, "--">> >>

BatchBoundary == <<"batch", 0>>

\* BatchContext._get_payload
_get_payload ==
    << <<"--", BatchBoundary>> >>
    \o Concat([i \in 1..Len(_parts) |-> ChangeSetGetPayload(heap[_parts[i]])])
    \o << <<"--", BatchBoundary, "--">> >>

NoWire == <<>>

-----------------------------------------------------------------------------
(* Outcome of a call *)

NoError == "none"
\* the call has not returned yet
Running == "running"
ErrNested == "Exception: Close the current change set first before opening a new one. They cannot be nested."
ErrNotOpen == "Exception: Open a change set first before closing one."
ErrExecOpen == "Exception: Call close_changeset before executing the batch request"
ErrNoChangeset == "Exception: Call open_changeset before doing data modification requests"
ErrDelete == "Exception: Delete still needs to be implemented"
ErrParentUpdate == "ValueError: Cannot provide a parent_resource for a non-insert operation"
ErrIndex == "IndexError: list index out of range"
ErrNoInstanceUrl == "ODataError: Cannot update Entity that does not belong to EntitySet"
ErrKwargs == "TypeError: __init__() got an unexpected keyword argument"
ErrTransport == "ODataConnectionError"

\* the errors of the taxonomy
SequenceErrors == {ErrNested, ErrNotOpen, ErrExecOpen, ErrNoChangeset}
ReferenceErrors == {ErrParentUpdate, ErrIndex, ErrNoInstanceUrl}

\* what a call that is not a completed execute leaves to its caller
Ret(op, error, value) ==
    [op |-> op, error |-> error, value |-> value,
     entities |-> <<>>, responses |-> <<>>, response_raw |-> <<>>, id_to_entity |-> <<>>]

-----------------------------------------------------------------------------
(* BatchContext *)

\* BatchContext.__init__
Init ==
    /\ _parts = <<>>
    /\ _changeset = NoChangeSet
    /\ _content_id_to_entity_map = <<>>
    /\ heap = <<>>
    /\ uuid = 0
    /\ es = [e \in Entities |->
                [persisted |-> e \in {"p", "q"},
                 dirty |-> DOMAIN InitialData(e),
                 data |-> InitialData(e),
                 instance_url |-> IF e = "p" THEN <<"/Authors(1)">> ELSE <<>>]]
    /\ pc = "idle"
    /\ snapshot = <<>>
    /\ wire = NoWire
    /\ cb_log = <<>>
    /\ ret = Ret("__init__", NoError, NoCid)

\* number of operations queued in the batch
TotalChanges == Len(Concat([i \in 1..Len(_parts) |-> heap[_parts[i]]._changes]))

\* open_changeset without its check: a changeset is opened inside an open one
open_changeset_nested ==
    /\ pc = "idle"
    /\ uuid < MaxChangeSets
    /\ LET cs == NewChangeSet(uuid + 1)
       IN  /\ heap' = (cs.boundary :> cs) @@ heap
           /\ _changeset' = cs.boundary
           /\ _parts' = Append(_parts, cs.boundary)
    /\ uuid' = uuid + 1
    /\ ret' = Ret("open_changeset", NoError, NoCid)
    /\ UNCHANGED <<_content_id_to_entity_map, es, pc, snapshot, wire, cb_log>>

\* BatchContext.open_changeset
open_changeset ==
    /\ pc = "idle"
    /\ IF _changeset # NoChangeSet
       THEN /\ ret' = Ret("open_changeset", ErrNested, NoCid)
            /\ UNCHANGED <<queue, uuid>>
       ELSE /\ uuid < MaxChangeSets
            /\ LET cs == NewChangeSet(uuid + 1)
               IN  /\ heap' = (cs.boundary :> cs) @@ heap
                   /\ _changeset' = cs.boundary
                   /\ _parts' = Append(_parts, cs.boundary)
            /\ uuid' = uuid + 1
            /\ ret' = Ret("open_changeset", NoError, NoCid)
            /\ UNCHANGED _content_id_to_entity_map
    /\ UNCHANGED <<es, pc, snapshot, wire, cb_log>>

\* BatchContext.close_changeset
close_changeset ==
    /\ pc = "idle"
    /\ IF _changeset = NoChangeSet
       THEN /\ ret' = Ret("close_changeset", ErrNotOpen, NoCid)
            /\ UNCHANGED _changeset
       ELSE /\ _changeset' = NoChangeSet
            /\ ret' = Ret("close_changeset", NoError, NoCid)
    /\ UNCHANGED <<_parts, _content_id_to_entity_map, heap, uuid, es, pc, snapshot, wire, cb_log>>

\* reset that forgets to clear the entity/content-id map
reset_keeps_map ==
    /\ _parts' = <<>>
    /\ UNCHANGED _content_id_to_entity_map
    /\ _changeset' = NoChangeSet
    /\ heap' = <<>>

\* BatchContext.reset
reset ==
    /\ _parts' = <<>>
    /\ _content_id_to_entity_map' = <<>>
    /\ _changeset' = NoChangeSet
    /\ heap' = <<>>

\* a queue call that raises, or returns without queuing
Leave(op, error) ==
    /\ ret' = Ret(op, error, NoCid)
    /\ UNCHANGED queue

\* the values of action_or_function, callback and **parameters a caller passes
CallInputs ==
    { <<[type |-> "Action", name |-> "Act"], <<"user_cb">>, ("x" :> "1")>>,
      <<[type |-> "Function", name |-> "Fn"], <<"user_cb">>, NoMap>>,
      <<[type |-> "Function", name |-> "Fn"], <<>>, ("x" :> "1")>>,
      <<[type |-> "Query", name |-> "Q"], <<>>, NoMap>> }

\* BatchContext.call
call(action_or_function, callback, parameters) ==
    /\ pc = "idle"
    /\ IF _changeset = NoChangeSet
       THEN Leave("call", ErrNoChangeset)
       ELSE /\ TotalChanges < MaxChanges
            /\ IF action_or_function.type = "Action"
               THEN /\ heap' = [heap EXCEPT ![_changeset] =
                           add_change(@, ActionChange(action_or_function.name, parameters), callback)]
                    /\ ret' = Ret("call", NoError, NoCid)
                    /\ UNCHANGED <<_parts, _changeset, _content_id_to_entity_map>>
               ELSE IF action_or_function.type = "Function"
               THEN IF DOMAIN parameters # {}
                    THEN Leave("call", ErrKwargs)
                    ELSE /\ heap' = [heap EXCEPT ![_changeset] =
                                add_change(@, FunctionChange(action_or_function.name), callback)]
                         /\ ret' = Ret("call", NoError, NoCid)
                         /\ UNCHANGED <<_parts, _changeset, _content_id_to_entity_map>>
               ELSE Leave("call", NoError)
    /\ UNCHANGED <<uuid, es, pc, snapshot, wire, cb_log>>

\* the first navigation property of type t that leads to type target, if any
NavTo(t, target) ==
    SelectSeq(NavigationProperties(t), LAMBDA x : x.navigated_property_type = target)

\* a lookup that takes every pair for a pair of the entity
PairsOf_any(entity) == _content_id_to_entity_map

\* [x for x in self._content_id_to_entity_map if x[0] is parent_resource]
PairsOf(entity) == SelectSeq(_content_id_to_entity_map, LAMBDA x : x[1] = entity)

\* the URL and the body of an insert (lines 215-239)
InsertUrl(entity, parent_resource) ==
    IF parent_resource = None
    THEN EntitySetUrl(entity)
    ELSE <<"$", PairsOf(parent_resource)[1][2], "/",
           NavTo(EntityType(parent_resource), EntityType(entity))[1].name>>

\* an insert body that keeps the child's foreign key
InsertData_keeps_fk(entity, parent_resource) ==
    data_for_insert(entity)

InsertData(entity, parent_resource) ==
    LET insert_data == data_for_insert(entity)
        nav_prop == NavTo(EntityType(entity), EntityType(parent_resource))
    IN  IF parent_resource # None /\ Len(nav_prop) > 0
           /\ nav_prop[1].foreign_key # None /\ nav_prop[1].foreign_key \in DOMAIN insert_data
        THEN DictPop(insert_data, nav_prop[1].foreign_key)
        ELSE insert_data

\* BatchContext._insert_new
_insert_new(entity, parent_resource) ==
    IF _changeset = NoChangeSet
    THEN Leave("save", ErrNoChangeset)
    ELSE IF parent_resource # None
            /\ Len(NavTo(EntityType(parent_resource), EntityType(entity))) = 0
    THEN Leave("save", ErrIndex)
    ELSE IF parent_resource # None /\ Len(PairsOf(parent_resource)) = 0
    THEN Leave("save", ErrIndex)
    ELSE LET cs == add_change(heap[_changeset],
                       Change(InsertUrl(entity, parent_resource),
                              InsertData(entity, parent_resource), CREATE),
                       <<"cb_insert", entity>>)
         IN  /\ heap' = [heap EXCEPT ![_changeset] = cs]
             /\ _content_id_to_entity_map' =
                    Append(_content_id_to_entity_map, <<entity, AddedContentId(cs)>>)
             /\ ret' = Ret("save", NoError, AddedContentId(cs))
             /\ UNCHANGED <<_parts, _changeset>>

\* BatchContext._update_existing
_update_existing(entity, force_refresh) ==
    IF _changeset = NoChangeSet
    THEN Leave("save", ErrNoChangeset)
    ELSE IF es[entity].instance_url = <<>>
    THEN Leave("save", ErrNoInstanceUrl)
    ELSE IF {i \in DOMAIN data_for_update(entity) : ~StartsWithAt(i)} = {}
    THEN Leave("save", NoError)
    ELSE LET cs == add_change(heap[_changeset],
                       Change(es[entity].instance_url, data_for_update(entity), UPDATE),
                       <<"cb_update", entity, force_refresh>>)
         IN  /\ heap' = [heap EXCEPT ![_changeset] = cs]
             /\ _content_id_to_entity_map' =
                    Append(_content_id_to_entity_map, <<entity, AddedContentId(cs)>>)
             /\ ret' = Ret("save", NoError, NoCid)
             /\ UNCHANGED <<_parts, _changeset>>

\* save that routes a persisted entity to the update whatever parent_resource is
save_ignores_parent(entity, force_refresh, parent_resource) ==
    /\ pc = "idle"
    /\ (_changeset # NoChangeSet) => TotalChanges < MaxChanges
    /\ IF is_entity_saved(entity)
       THEN _update_existing(entity, force_refresh)
       ELSE _insert_new(entity, parent_resource)
    /\ UNCHANGED <<uuid, es, pc, snapshot, wire, cb_log>>

\* BatchContext.save
save(entity, force_refresh, parent_resource) ==
    /\ pc = "idle"
    /\ (_changeset # NoChangeSet) => TotalChanges < MaxChanges
    /\ IF is_entity_saved(entity)
       THEN IF parent_resource # None
            THEN Leave("save", ErrParentUpdate)
            ELSE _update_existing(entity, force_refresh)
       ELSE _insert_new(entity, parent_resource)
    /\ UNCHANGED <<uuid, es, pc, snapshot, wire, cb_log>>

\* delete without its open-changeset check
delete_unchecked(entity) ==
    /\ pc = "idle"
    /\ Leave("delete", ErrDelete)
    /\ UNCHANGED <<uuid, es, pc, snapshot, wire, cb_log>>

\* BatchContext.delete
delete(entity) ==
    /\ pc = "idle"
    /\ IF _changeset = NoChangeSet
       THEN Leave("delete", ErrNoChangeset)
       ELSE Leave("delete", ErrDelete)
    /\ UNCHANGED <<uuid, es, pc, snapshot, wire, cb_log>>

-----------------------------------------------------------------------------
(* Response correlation: BatchContext._apply_response_to_entities *)

NoMsg == [kind |-> "None"]

\* 'Server sent no error message. There might be errors in previous
\* operations of the same batch.'
GenericMsg == [kind |-> "no response"]

\* res.get('body', {}).get('error', {}).get('message', 'Server sent no error message')
ErrorDetail(res) ==
    IF "error" \in DOMAIN res.body /\ "message" \in DOMAIN res.body["error"]
    THEN res.body["error"]["message"]
    ELSE "Server sent no error message"

\* "HTTP %s for changeset '%s' and content_id '%s' with error %s"
EntityErrorMsg(res) ==
    [kind |-> "HTTP for changeset and content_id", status |-> res.status,
     group |-> res.atomicityGroup, id |-> res.id, detail |-> ErrorDetail(res)]

\* "HTTP %s for content_id '%s' with error %s"
LeftoverErrorMsg(res) ==
    [kind |-> "HTTP for content_id", status |-> res.status, id |-> res.id,
     detail |-> ErrorDetail(res)]

\* the range check with its lower comparison off by one
IsErrorStatus_le(status) == status <= 200 \/ status >= 300

\* status < 200 or status >= 300
IsErrorStatus(status) == status < 200 \/ status >= 300

\* the body without the keys that start with '@odata.'
StripAnnotations(body) == [k \in {x \in DOMAIN body : ~StartsWithOData(x)} |-> body[k]]

\* the positions of the entries of a response list with the given id
Matches(responses, content_id) == {i \in DOMAIN responses : responses[i].id = content_id}

\* the check that only looks for a missing entry
NotExactlyOne_missing(matches) == Cardinality(matches) = 0

\* the check that lets a pair of entries pass for one
NotExactlyOne_pair(matches) == Cardinality(matches) \notin {1, 2}

\* len(resp_for_entity) != 1
NotExactlyOne(matches) == Cardinality(matches) # 1

\* the state of the loop over the snapshot before its first pass
CorrelationStart(response) ==
    [es |-> es, entities |-> <<>>, response_map |-> <<>>, processed_content_ids |-> <<>>,
     responses |-> response, invoked |-> <<>>]

\* one pass of the loop over the snapshot (lines 72-108)
CorrelatePair(acc, pair) ==
    LET entity == pair[1]
        content_id == pair[2]
        matches == Matches(acc.responses, content_id)
    IN  IF NotExactlyOne(matches)
        THEN [acc EXCEPT !.response_map = Append(@, <<entity, 500, GenericMsg>>),
                         !.entities = Append(@, entity)]
        ELSE LET i == CHOOSE j \in matches : TRUE
                 resp_for_entity == acc.responses[i]
             IN  IF IsErrorStatus(resp_for_entity.status)
                 THEN [acc EXCEPT !.processed_content_ids = Append(@, content_id),
                                  !.response_map = Append(@, <<entity, resp_for_entity.status,
                                                               EntityErrorMsg(resp_for_entity)>>),
                                  !.entities = Append(@, entity)]
                 ELSE LET saved_data == StripAnnotations(resp_for_entity.body)
                      IN  [acc EXCEPT !.processed_content_ids = Append(@, content_id),
                                      !.responses[i].body = saved_data,
                                      !.es[entity] = EsUpdate(EsReset(@), saved_data),
                                      !.response_map = Append(@, <<entity, resp_for_entity.status,
                                                                   NoMsg>>),
                                      !.entities = Append(@, entity)]

RECURSIVE CorrelatePairs(_, _)
CorrelatePairs(acc, m) ==
    IF Len(m) = 0 THEN acc ELSE CorrelatePairs(CorrelatePair(acc, Head(m)), Tail(m))

\* the second loop without its filter
IsLeftover_all(res, processed_content_ids) == TRUE

\* x['id'] not in processed_content_ids
IsLeftover(res, processed_content_ids) ==
    \A k \in DOMAIN processed_content_ids : processed_content_ids[k] # res.id

\* the tuple of one leftover entry (lines 111-120)
LeftoverTuple(res) ==
    IF IsErrorStatus(res.status)
    THEN <<None, res.status, LeftoverErrorMsg(res)>>
    ELSE <<None, res.status, NoMsg>>

RECURSIVE Leftovers(_, _)
Leftovers(responses, processed_content_ids) ==
    IF Len(responses) = 0 THEN <<>>
    ELSE (IF IsLeftover(Head(responses), processed_content_ids)
          THEN <<LeftoverTuple(Head(responses))>> ELSE <<>>)
         \o Leftovers(Tail(responses), processed_content_ids)

\* BatchContext._apply_response_to_entities
_apply_response_to_entities(response, content_id_to_entity_map) ==
    LET acc == CorrelatePairs(CorrelationStart(response), content_id_to_entity_map)
    IN  [acc EXCEPT !.response_map =
             @ \o Leftovers(acc.responses, acc.processed_content_ids)]

-----------------------------------------------------------------------------
(* BatchContext.execute and the transport *)

\* execute without its open-changeset check
execute_unchecked ==
    /\ pc = "idle"
    /\ snapshot' = _content_id_to_entity_map
    /\ wire' = _get_payload
    /\ reset
    /\ pc' = "sending"
    /\ ret' = Ret("execute", Running, NoCid)
    /\ UNCHANGED <<uuid, es, cb_log>>

\* lines 36-55: the check, the snapshot, the payload, reset, the send
execute ==
    /\ pc = "idle"
    /\ IF _changeset # NoChangeSet
       THEN /\ Leave("execute", ErrExecOpen)
            /\ UNCHANGED <<pc, snapshot, wire>>
       ELSE /\ snapshot' = _content_id_to_entity_map
            /\ wire' = _get_payload
            /\ reset
            /\ pc' = "sending"
            /\ ret' = Ret("execute", Running, NoCid)
    /\ UNCHANGED <<uuid, es, cb_log>>

\* lines 59-65: execute_post_raw returned the parsed response
execute_return(response) ==
    /\ pc = "sending"
    /\ LET post_processed == _apply_response_to_entities(response, snapshot)
       IN  /\ es' = post_processed.es
           /\ cb_log' = post_processed.invoked
           /\ ret' = [op |-> "execute", error |-> NoError, value |-> NoCid,
                      entities |-> post_processed.entities,
                      responses |-> post_processed.response_map,
                      response_raw |-> post_processed.responses,
                      id_to_entity |-> snapshot]
    /\ pc' = "idle"
    /\ snapshot' = <<>>
    /\ wire' = NoWire
    /\ UNCHANGED <<queue, uuid>>

\* execute_post_raw raised: the exception leaves execute
execute_raise ==
    /\ pc = "sending"
    /\ ret' = Ret("execute", ErrTransport, NoCid)
    /\ pc' = "idle"
    /\ snapshot' = <<>>
    /\ wire' = NoWire
    /\ UNCHANGED <<queue, uuid, es, cb_log>>

-----------------------------------------------------------------------------
(* The server *)

Statuses == {199, 200, 299, 300}

DataBody == ("name" :> "srv") @@ ("@odata.etag" :> "W1")
ErrorBody == ("error" :> ("message" :> "boom"))

\* a response entry {id, status, atomicityGroup, body}
Entry(id, status) ==
    [id |-> id, status |-> status, atomicityGroup |-> id[1],
     body |-> IF status = 200 THEN DataBody ELSE IF status = 300 THEN ErrorBody ELSE NoMap]

\* the Content-ID lines of a payload, in order
ContentIdsOf(payload) ==
    LET lines == SelectSeq(payload, LAMBDA l : l[1] = "Content-ID")
    IN  [i \in DOMAIN lines |-> lines[i][2]]

\* a server that answers every operation of the payload once, in order
OrderlyResponses(payload) ==
    LET ids == ContentIdsOf(payload)
    IN  {[i \in DOMAIN ids |-> Entry(ids[i], st[i])] : st \in [DOMAIN ids -> {200, 300}]}

\* an id no operation of the batch has
ForeignId == <<<<"changeset", 0>>, 1>>

\* any response list of at most MaxResp entries
AnyResponses(payload) ==
    LET ids == {ContentIdsOf(payload)[i] : i \in DOMAIN ContentIdsOf(payload)} \cup {ForeignId}
        entries == {Entry(id, st) : id \in ids, st \in Statuses}
    IN  UNION {[1..n -> entries] : n \in 0..MaxResp}

-----------------------------------------------------------------------------
(* Specifications *)

\* the values of entity, force_refresh and parent_resource a caller passes
SaveInputs ==
    {<<e, TRUE, p>> : e \in {"a", "b"}, p \in {None, "a", "b", "p"}}
    \cup {<<"p", TRUE, None>>, <<"p", TRUE, "a">>, <<"q", TRUE, None>>}

Next ==
    \/ open_changeset
    \/ close_changeset
    \/ \E c \in CallInputs : call(c[1], c[2], c[3])
    \/ \E i \in SaveInputs : save(i[1], i[2], i[3])
    \/ \E e \in {"p"} : delete(e)
    \/ execute
    \/ \E r \in OrderlyResponses(wire) : execute_return(r)
    \/ execute_raise

\* the coordinator against a server that answers every operation once
Spec == Init /\ [][Next]_vars

\* an execute has run to its end
Executed == ret.op = "execute" /\ ret.error \in {NoError, ErrTransport}

NextCorr ==
    \/ ~Executed /\ uuid = 0 /\ open_changeset
    \/ ~Executed /\ close_changeset
    \/ \E e \in {"a", "b", "p"} :
          ~Executed /\ Len(_content_id_to_entity_map) < MaxPairs /\ save(e, TRUE, None)
    \/ ~Executed /\ execute
    \/ \E r \in AnyResponses(wire) : execute_return(r)
    \/ execute_raise

\* one batch of saves against a server that answers with any response list
SpecCorr == Init /\ [][NextCorr]_vars

-----------------------------------------------------------------------------
(* Properties *)

QueueEmpty ==
    /\ _parts = <<>>
    /\ _content_id_to_entity_map = <<>>
    /\ _changeset = NoChangeSet

\* a call of the public method op returns in this step
Returns(op) == pc = "idle" /\ ret'.op = op /\ ret'.error # Running

\* C1: open_changeset while a changeset is open, and close_changeset while
\* none is open, fail with a sequence error and leave the parts, the
\* entity/content-id map and the open-changeset pointer unchanged.
C1_OpenCloseOutOfOrder ==
    [][/\ (Returns("open_changeset") /\ _changeset # NoChangeSet)
            => (ret'.error \in SequenceErrors /\ UNCHANGED queue)
       /\ (Returns("close_changeset") /\ _changeset = NoChangeSet)
            => (ret'.error \in SequenceErrors /\ UNCHANGED queue)]_vars

C1_Witness ==
    /\ ret.op = "open_changeset"
    /\ ret.error = ErrNested
    /\ Len(_parts) > 0

\* C2: execute while a changeset is open fails with a sequence error, hands
\* nothing to the transport and leaves the parts, the map and the open
\* changeset with its queued operations as they were.
C2_ExecuteWhileOpen ==
    [][(pc = "idle" /\ ret'.op = "execute" /\ _changeset # NoChangeSet)
          => /\ ret'.error \in SequenceErrors
             /\ pc' = "idle"
             /\ wire' = NoWire
             /\ UNCHANGED queue]_vars

C2_Witness ==
    /\ ret.op = "execute"
    /\ ret.error = ErrExecOpen
    /\ _changeset # NoChangeSet
    /\ Len(heap[_changeset]._changes) > 0
    /\ Len(_content_id_to_entity_map) > 0

\* C3: an execute that passes the open-changeset check has emptied the queue
\* state when the payload is with the transport, the queue state is empty
\* when the transport returns or fails, and an open_changeset that follows
\* succeeds.
C3_ExecuteClearsQueue ==
    [][/\ pc' = "sending" => QueueEmpty'
       /\ pc = "sending" => QueueEmpty'
       /\ (Executed /\ Returns("open_changeset")) => ret'.error = NoError]_vars

C3_Witness ==
    /\ ret.op = "open_changeset"
    /\ ret.error = NoError
    /\ uuid = 2
    /\ Len(_parts) = 1

\* C4 as claimed: every save, delete and call made while no changeset is open
\* fails with a sequence error and queues nothing, and a changeset is only
\* opened while none is open.
C4_Original ==
    [][/\ (_changeset = NoChangeSet
            /\ (Returns("save") \/ Returns("delete") \/ Returns("call")))
            => (ret'.error \in SequenceErrors /\ UNCHANGED queue)
       /\ (Returns("open_changeset") /\ ret'.error = NoError)
            => (_changeset = NoChangeSet /\ _changeset' = Last(_parts'))]_vars

\* C4 as amended: every save, delete and call made while no changeset is open
\* fails and queues nothing; the failure is a sequence error, except that a
\* save of a persisted entity given a parent_resource fails with the
\* parent-resource error first; a changeset is only opened while none is open.
C4_QueueNeedsOpenChangeset ==
    [][/\ (_changeset = NoChangeSet
            /\ (Returns("save") \/ Returns("delete") \/ Returns("call")))
            => /\ ret'.error \in SequenceErrors
                  \/ (ret'.op = "save" /\ ret'.error = ErrParentUpdate)
               /\ UNCHANGED queue
       /\ (Returns("open_changeset") /\ ret'.error = NoError)
            => (_changeset = NoChangeSet /\ _changeset' = Last(_parts'))]_vars

C4_Witness ==
    /\ ret.op = "call"
    /\ ret.error = ErrNoChangeset
    /\ _changeset = NoChangeSet
    /\ Len(_parts) > 0

\* the content ids of every live changeset are <boundary>-1, <boundary>-2, ...
\* in queuing order
CidsSequential ==
    \A b \in DOMAIN heap :
        \A i \in DOMAIN heap[b]._changes :
            heap[b]._changes[i].content_id = <<heap[b].boundary, i>>

\* an operation keeps the content id it was given
CidsStable ==
    \A b \in (DOMAIN heap) \cap (DOMAIN heap') :
        \A i \in DOMAIN heap[b]._changes :
            /\ i \in DOMAIN heap'[b]._changes
            /\ heap'[b]._changes[i] = heap[b]._changes[i]

\* C5: the content ids of a changeset are <boundary>-<n>, n = 1 for the first
\* queued operation and one more for each later one; no id is assigned twice
\* or reassigned.
C5_ContentIdsSequential == [][CidsSequential' /\ CidsStable]_vars

C5_Witness ==
    \E b \in DOMAIN heap :
        /\ Len(heap[b]._changes) >= 2
        /\ heap[b]._changes[2].content_id = <<b, 2>>

-----------------------------------------------------------------------------
(* Properties of the correlation, read off the value execute returns *)

\* an execute has just returned its result
Correlated == ret.op = "execute" /\ ret.error = NoError

\* the entries of the raw response whose id is the content id of pair k
EntriesFor(k) ==
    {i \in DOMAIN ret.response_raw : ret.response_raw[i].id = ret.id_to_entity[k][2]}

\* pair k has exactly one response entry, and its status is in [200, 300)
SingleSuccess(k) ==
    /\ Cardinality(EntriesFor(k)) = 1
    /\ \A i \in EntriesFor(k) :
          ret.response_raw[i].status >= 200 /\ ret.response_raw[i].status < 300

\* C6: an entity whose content id has no entry in the response list is
\* reported with status 500 and a message; an entity whose content id has
\* exactly one entry with a status in [200, 300) is reported with that status
\* and no message.
C6_MissingAndSuccessful ==
    Correlated =>
        \A k \in DOMAIN ret.id_to_entity :
            /\ EntriesFor(k) = {}
                 => /\ ret.responses[k][1] = ret.id_to_entity[k][1]
                    /\ ret.responses[k][2] = 500
                    /\ ret.responses[k][3] # NoMsg
            /\ SingleSuccess(k)
                 => \A i \in EntriesFor(k) :
                       ret.responses[k] =
                           <<ret.id_to_entity[k][1], ret.response_raw[i].status, NoMsg>>

C6_Witness ==
    /\ Correlated
    /\ \E k1, k2 \in DOMAIN ret.id_to_entity :
          /\ EntriesFor(k1) = {}
          /\ ret.responses[k1][2] = 500
          /\ SingleSuccess(k2)
          /\ ret.responses[k2][3] = NoMsg

\* the entries of the raw response that no pair with exactly one entry claims
Unmatched ==
    SelectSeq(ret.response_raw,
              LAMBDA r : \A k \in DOMAIN ret.id_to_entity :
                            \/ ret.id_to_entity[k][2] # r.id
                            \/ Cardinality(EntriesFor(k)) # 1)

\* C7: the responses list is one tuple per snapshot pair, in queuing order
\* and with the pair's entity, then one tuple without entity for each entry
\* whose id was not marked processed, in response order, with no message for
\* a status in [200, 300) and the status and a message otherwise.
C7_ResponsesShape ==
    Correlated =>
        LET n == Len(ret.id_to_entity)
        IN  /\ Len(ret.responses) = n + Len(Unmatched)
            /\ \A k \in 1..n : ret.responses[k][1] = ret.id_to_entity[k][1]
            /\ \A j \in DOMAIN Unmatched :
                  /\ ret.responses[n + j][1] = None
                  /\ ret.responses[n + j][2] = Unmatched[j].status
                  /\ (Unmatched[j].status >= 200 /\ Unmatched[j].status < 300)
                        <=> ret.responses[n + j][3] = NoMsg

C7_Witness ==
    /\ Correlated
    /\ Len(ret.id_to_entity) = 2
    /\ SingleSuccess(2)
    /\ Len(Unmatched) = 1
    /\ ret.response_raw[1].id = ret.id_to_entity[2][2]
    /\ ret.responses[3][1] = None

\* C8 as claimed: after an execute whose response has exactly one entry, with
\* a status in [200, 300), for the content id of a queued save, the entity is
\* marked persisted, its dirty tracking is reset and the returned field values
\* are applied (a queued insert is a pair whose entity was not persisted).
C8_InsertMarkedPersisted ==
    Correlated =>
        \A k \in DOMAIN ret.id_to_entity :
            SingleSuccess(k) =>
                LET e == ret.id_to_entity[k][1]
                IN  /\ es[e].persisted
                    /\ es[e].dirty = {}
                    /\ \A i \in EntriesFor(k) :
                          \A key \in DOMAIN ret.response_raw[i].body :
                              /\ key \in DOMAIN es[e].data
                              /\ es[e].data[key] = ret.response_raw[i].body[key]

\* the invocations of completion callbacks for pair k
InvocationsFor(k) == {j \in DOMAIN cb_log : cb_log[j][1] = ret.id_to_entity[k][2]}

\* C9 as claimed: the completion callback of every queued save whose content
\* id has exactly one successful response entry has been invoked exactly once
\* during the correlation, and no callback of an operation with a failed or
\* missing response has been invoked.
C9_CallbacksInvoked ==
    Correlated =>
        \A k \in DOMAIN ret.id_to_entity :
            Cardinality(InvocationsFor(k)) = (IF SingleSuccess(k) THEN 1 ELSE 0)

\* the outcome of pair k is an error: no entry, several entries, or one entry
\* with a status outside [200, 300)
ErrorOutcome(raw, content_id) ==
    \/ Cardinality(Matches(raw, content_id)) # 1
    \/ \E i \in Matches(raw, content_id) : raw[i].status < 200 \/ raw[i].status >= 300

\* C10: for every response list execute returns a result; an entity all of
\* whose queued pairs have an error outcome keeps its state (no reset, no
\* field applied), and an entity with a pair whose single entry is successful
\* has its dirty tracking reset and the entry's fields applied.
C10_ErrorsLeaveEntities ==
    [][(pc = "sending" /\ ret'.op = "execute" /\ ret'.error # ErrTransport)
          => /\ ret'.error = NoError
             /\ \A e \in Entities :
                   IF \A k \in DOMAIN snapshot :
                         snapshot[k][1] = e => ErrorOutcome(ret'.response_raw, snapshot[k][2])
                   THEN es'[e] = es[e]
                   ELSE /\ es'[e].dirty = {}
                        /\ \A k \in DOMAIN snapshot :
                              (snapshot[k][1] = e
                               /\ ~ErrorOutcome(ret'.response_raw, snapshot[k][2]))
                              => \A i \in Matches(ret'.response_raw, snapshot[k][2]) :
                                    \A key \in DOMAIN ret'.response_raw[i].body :
                                        es'[e].data[key] = ret'.response_raw[i].body[key]]_vars

C10_Witness ==
    /\ Correlated
    /\ \E k1, k2 \in DOMAIN ret.id_to_entity :
          /\ Cardinality(EntriesFor(k1)) = 1
          /\ ~SingleSuccess(k1)
          /\ SingleSuccess(k2)
          /\ ret.id_to_entity[k1][1] # ret.id_to_entity[k2][1]
          /\ es[ret.id_to_entity[k1][1]].dirty # {}
          /\ es[ret.id_to_entity[k2][1]].dirty = {}
          /\ \E i \in EntriesFor(k2) : ret.response_raw[i].status = 200
          /\ es[ret.id_to_entity[k2][1]].data["name"] = "srv"

\* the operation a queue call has just appended to the open changeset
Queued == Last(heap'[_changeset]._changes)

\* the step queues exactly one operation, in the open changeset
QueuesOne ==
    /\ _changeset # NoChangeSet
    /\ _changeset' = _changeset
    /\ _parts' = _parts
    /\ DOMAIN heap' = DOMAIN heap
    /\ \A b \in DOMAIN heap : b # _changeset => heap'[b] = heap[b]
    /\ Len(heap'[_changeset]._changes) = Len(heap[_changeset]._changes) + 1
    /\ SubSeq(heap'[_changeset]._changes, 1, Len(heap[_changeset]._changes))
           = heap[_changeset]._changes

\* C11: an insert queued with a parent_resource that has a pair in the
\* entity/content-id map (whichever changeset of the batch it was queued in)
\* gets the URL $<the parent's content-id>/<name of the parent's navigation
\* property to the child's type>, and its body lacks the foreign key of the
\* child's navigation to the parent's type; an insert queued without
\* parent_resource gets the entity set's URL and the full insert payload.
C11_ParentReference ==
    [][\A i \in SaveInputs :
          LET entity == i[1]
              parent_resource == i[3]
          IN  (/\ save(entity, i[2], parent_resource)
               /\ ~is_entity_saved(entity)
               /\ ret'.error = NoError)
              => /\ QueuesOne
                 /\ Queued.method = "POST"
                 /\ parent_resource = None =>
                        /\ Queued.target = EntitySetUrl(entity)
                        /\ Queued.data = es[entity].data
                 /\ parent_resource # None =>
                        /\ \E k \in DOMAIN _content_id_to_entity_map :
                              /\ _content_id_to_entity_map[k][1] = parent_resource
                              /\ Queued.target[1] = "$"
                              /\ Queued.target[2] = _content_id_to_entity_map[k][2]
                              /\ Queued.target[3] = "/"
                        /\ Len(Queued.target) = 4
                        /\ \E j \in DOMAIN NavigationProperties(EntityType(parent_resource)) :
                              LET n == NavigationProperties(EntityType(parent_resource))[j]
                              IN  /\ n.navigated_property_type = EntityType(entity)
                                  /\ Queued.target[4] = n.name
                        /\ \A j \in DOMAIN NavigationProperties(EntityType(entity)) :
                              LET n == NavigationProperties(EntityType(entity))[j]
                              IN  n.navigated_property_type = EntityType(parent_resource)
                                  => n.foreign_key \notin DOMAIN Queued.data
                        /\ \A f \in DOMAIN Queued.data : Queued.data[f] = es[entity].data[f]
         ]_vars

\* a child is queued in the second changeset of a batch with a reference to
\* a parent queued in the first, closed one, and its body has lost AuthorId
C11_Witness ==
    /\ _changeset # NoChangeSet
    /\ \E i \in DOMAIN heap[_changeset]._changes :
          LET c == heap[_changeset]._changes[i]
          IN  /\ Len(c.target) = 4
              /\ c.target[2][1] # _changeset
              /\ c.target[4] = "Books"
              /\ DOMAIN c.data = {"title"}

\* C12: while a changeset is open, an insert with a parent_resource that has
\* no pair in the entity/content-id map fails with a reference error, and
\* the parts, the changesets with their operations and numbering, and the
\* map are unchanged.
C12_ParentNotQueued ==
    [][\A i \in SaveInputs :
          LET entity == i[1]
              parent_resource == i[3]
          IN  (/\ save(entity, i[2], parent_resource)
               /\ ~is_entity_saved(entity)
               /\ _changeset # NoChangeSet
               /\ parent_resource # None
               /\ \A k \in DOMAIN _content_id_to_entity_map :
                     _content_id_to_entity_map[k][1] # parent_resource)
              => /\ ret'.op = "save"
                 /\ ret'.error \in ReferenceErrors
                 /\ ret'.value = NoCid
                 /\ UNCHANGED queue
      ]_vars

\* a parent_resource lookup has failed in the empty second changeset of the
\* coordinator, after the batch that saved a was executed and cleared the map
C12_Witness ==
    /\ ret.op = "save"
    /\ ret.error = ErrIndex
    /\ es["a"].dirty = {}
    /\ _changeset # NoChangeSet
    /\ _content_id_to_entity_map = <<>>
    /\ heap[_changeset]._changes = <<>>

\* C13: a save of a persisted entity that has no changed fields leaves the
\* parts, the changesets with their operations and numbering, and the
\* entity/content-id map as they were and returns no content-id; with a
\* changeset open and an instance URL it returns normally.
C13_NothingToUpdate ==
    [][\A i \in SaveInputs :
          LET entity == i[1]
          IN  (/\ save(entity, i[2], i[3])
               /\ is_entity_saved(entity)
               /\ es[entity].dirty = {})
              => /\ ret'.op = "save"
                 /\ ret'.value = NoCid
                 /\ UNCHANGED queue
                 /\ (/\ _changeset # NoChangeSet
                     /\ i[3] = None
                     /\ es[entity].instance_url # <<>>) => ret'.error = NoError
      ]_vars

\* p was saved by an earlier batch; a second save of it has returned without
\* queuing, and the open changeset is still to number its first operation
C13_Witness ==
    /\ ret.op = "save"
    /\ ret.error = NoError
    /\ ret.value = NoCid
    /\ es["p"].dirty = {}
    /\ _changeset # NoChangeSet
    /\ heap[_changeset]._changes = <<>>
    /\ _content_id_to_entity_map = <<>>

\* C14: a delete called while a changeset is open queues exactly one
\* operation in that changeset, and the operation is a DELETE.
C14_DeleteQueues ==
    [][\A entity \in {"p"} :
          (delete(entity) /\ _changeset # NoChangeSet)
          => /\ ret'.error = NoError
             /\ QueuesOne
             /\ Queued.method = DELETE
      ]_vars

\* C15: a call of an action or of a function made while a changeset is open,
\* whatever its parameters, queues exactly one operation in that changeset;
\* the operation has the parameters as its body and the next content-id of
\* the changeset.
C15_CallQueues ==
    [][\A c \in CallInputs :
          (/\ call(c[1], c[2], c[3])
           /\ c[1].type \in {"Action", "Function"}
           /\ _changeset # NoChangeSet)
          => /\ ret'.error = NoError
             /\ QueuesOne
             /\ Queued.data = c[3]
             /\ Queued.content_id =
                    ContentId(_changeset, Len(heap[_changeset]._changes) + 1)
      ]_vars

\* the positions of the raw response entries that the leftover section reports
UnmatchedIdx ==
    {i \in DOMAIN ret.response_raw :
        \A k \in DOMAIN ret.id_to_entity :
            \/ ret.id_to_entity[k][2] # ret.response_raw[i].id
            \/ Cardinality(EntriesFor(k)) # 1}

\* where the leftover section reports raw entry i
LeftoverPos(i) == Len(ret.id_to_entity) + Cardinality({j \in UnmatchedIdx : j <= i})

\* C16: when two or more response entries carry the content id of a queued
\* pair, the pair's entity is reported once, at the pair's position, with
\* status 500 and the generic message, and each of those entries is reported
\* in the leftover section without entity and with its own status.
C16_DuplicateEntries ==
    Correlated =>
        \A k \in DOMAIN ret.id_to_entity :
            Cardinality(EntriesFor(k)) >= 2
            => /\ ret.responses[k] = <<ret.id_to_entity[k][1], 500, GenericMsg>>
               /\ \A i \in EntriesFor(k) :
                     /\ i \in UnmatchedIdx
                     /\ LeftoverPos(i) \in DOMAIN ret.responses
                     /\ LeftoverPos(i) > Len(ret.id_to_entity)
                     /\ ret.responses[LeftoverPos(i)][1] = None
                     /\ ret.responses[LeftoverPos(i)][2] = ret.response_raw[i].status
               /\ Cardinality({j \in DOMAIN ret.responses :
                                  ret.responses[j][1] = ret.id_to_entity[k][1]})
                    = Cardinality({k2 \in DOMAIN ret.id_to_entity :
                                      ret.id_to_entity[k2][1] = ret.id_to_entity[k][1]})

\* the server answered one queued save twice, once with 200 and once with 300
C16_Witness ==
    /\ Correlated
    /\ \E k \in DOMAIN ret.id_to_entity :
          /\ Cardinality(EntriesFor(k)) = 2
          /\ ret.responses[k][2] = 500
          /\ Len(ret.responses) = Len(ret.id_to_entity) + 2
          /\ ret.response_raw[1].status = 200
          /\ ret.response_raw[2].status = 300
          /\ ret.responses[Len(ret.id_to_entity) + 1][2] = 200
          /\ ret.responses[Len(ret.id_to_entity) + 2][2] = 300

\* C17 as claimed: in every state, a save of a persisted entity that is given
\* a parent_resource, and likewise a save of a persisted entity that has no
\* instance URL, fails with a reference error and leaves the parts, the
\* changesets with their operations and numbering, and the map unchanged.
C17_Original ==
    [][\A i \in SaveInputs :
          (/\ save(i[1], i[2], i[3])
           /\ is_entity_saved(i[1])
           /\ (i[3] # None \/ es[i[1]].instance_url = <<>>))
          => /\ ret'.error \in ReferenceErrors
             /\ ret'.value = NoCid
             /\ UNCHANGED queue
      ]_vars

\* C17 as amended: in every state, a save of a persisted entity that is given
\* a parent_resource fails with a reference error and queues nothing; a save
\* of a persisted entity without instance URL (and without parent_resource)
\* queues nothing either, failing with a reference error while a changeset is
\* open and with the sequence error while none is.
C17_UpdateRefused ==
    [][\A i \in SaveInputs :
          (save(i[1], i[2], i[3]) /\ is_entity_saved(i[1]))
          => /\ i[3] # None
                => /\ ret'.error = ErrParentUpdate
                   /\ ErrParentUpdate \in ReferenceErrors
                   /\ ret'.value = NoCid
                   /\ UNCHANGED queue
             /\ (i[3] = None /\ es[i[1]].instance_url = <<>>)
                => /\ ret'.error \in
                         (IF _changeset = NoChangeSet THEN SequenceErrors ELSE ReferenceErrors)
                   /\ ret'.value = NoCid
                   /\ UNCHANGED queue
      ]_vars

\* the save of an entity without instance URL has been refused while the open
\* changeset holds an operation
C17_Witness ==
    /\ ret.op = "save"
    /\ ret.error = ErrNoInstanceUrl
    /\ _changeset # NoChangeSet
    /\ Len(heap[_changeset]._changes) = 1
    /\ Len(_content_id_to_entity_map) = 1

-----------------------------------------------------------------------------
(* Decoding a payload: the reading of the serialization rules backwards *)

Methods == {"POST", "PATCH", "DELETE", "GET"}

\* urllib.parse.unquote
Unquote(url) ==
    IF Head(url) = "%24" THEN <<"$">> \o Tail(url)
    ELSE IF url = <<"/Authors%281%29">> THEN <<"/Authors(1)">>
    ELSE url

\* the content id, method, URL and body an operation sends; a body is a
\* sequence of at most one JSON value
Operation(change) ==
    [content_id |-> change.content_id,
     method |-> IF change.kind = "Change" THEN change.method
                ELSE IF change.kind = "ActionChange" THEN "POST" ELSE "GET",
     url |-> IF change.kind = "Change" THEN change.target
             ELSE IF change.kind = "ActionChange" THEN <<"/">> \o change.target
             ELSE <<"service/">> \o change.target,
     body |-> IF change.kind = "FunctionChange" THEN <<>> ELSE <<change.data>>]

\* the operations of a sequence of payload lines: a Content-ID header starts
\* one, the request line gives its method and URL, a JSON line its body
RECURSIVE DecodeLines(_, _)
DecodeLines(lines, ops) ==
    IF Len(lines) = 0 THEN ops
    ELSE LET l == Head(lines)
             n == Len(ops)
         IN  IF l[1] = "Content-ID"
             THEN DecodeLines(Tail(lines),
                      Append(ops, [content_id |-> l[2], method |-> None,
                                   url |-> <<>>, body |-> <<>>]))
             ELSE IF l[1] \in Methods /\ n > 0
             THEN DecodeLines(Tail(lines),
                      [ops EXCEPT ![n].method = l[1], ![n].url = Unquote(l[2])])
             ELSE IF l[1] = "json" /\ n > 0
             THEN DecodeLines(Tail(lines), [ops EXCEPT ![n].body = <<l[2]>>])
             ELSE DecodeLines(Tail(lines), ops)

Decode(payload) == DecodeLines(payload, <<>>)

\* the changeset boundaries a payload announces, in payload order
RECURSIVE Boundaries(_)
Boundaries(lines) ==
    IF Len(lines) = 0 THEN <<>>
    ELSE (IF Head(lines)[1] = "Content-Type" /\ Len(Head(lines)) = 3
          THEN <<Head(lines)[3]>> ELSE <<>>)
         \o Boundaries(Tail(lines))

\* the operations of a changeset in queuing order
OperationsOf(cs) == [j \in 1..Len(cs._changes) |-> Operation(cs._changes[j])]

\* C18: the payload execute hands to the transport announces the changesets
\* in the order they were opened and holds the operations of each in queuing
\* order, each with its content id, method, URL and body; and the payload of
\* every changeset decodes to the content id, method, URL and body of its
\* operations in queuing order.
C18_PayloadRoundTrip ==
    [][(pc = "idle" /\ pc' = "sending")
       => /\ Boundaries(wire') = _parts
          /\ Decode(wire') = Concat([i \in 1..Len(_parts) |-> OperationsOf(heap[_parts[i]])])
          /\ \A b \in DOMAIN heap :
                Decode(ChangeSetGetPayload(heap[b])) = OperationsOf(heap[b])
      ]_vars

\* a payload of two changesets is on its way; the operation of the second
\* refers to the content id of the first's, its URL escaped in the payload
C18_Witness ==
    /\ pc = "sending"
    /\ Len(Boundaries(wire)) = 2
    /\ Len(Decode(wire)) = 2
    /\ Decode(wire)[1].content_id[1] = Boundaries(wire)[1]
    /\ Decode(wire)[2].content_id[1] = Boundaries(wire)[2]
    /\ Decode(wire)[2].url[1] = "$"
    /\ \E i \in DOMAIN wire : wire[i][1] = "POST" /\ wire[i][2][1] = "%24"

\* C19: every save that queues an operation, an update as well as an insert,
\* returns the content id of the operation it queued, which is also the
\* content id of the pair it recorded.
C19_SaveReturnsContentId ==
    [][\A i \in SaveInputs :
          (save(i[1], i[2], i[3]) /\ heap' # heap)
          => /\ QueuesOne
             /\ ret'.value = Queued.content_id
             /\ ret'.value = Last(_content_id_to_entity_map')[2]
      ]_vars

\* the operations of the batch in queuing order: changeset after changeset
\* in the order of the parts, and inside a changeset in the order of its list
QueuedChanges == Concat([i \in 1..Len(_parts) |-> heap[_parts[i]]._changes])

\* the inserts and updates among them
QueuedSaves == SelectSeq(QueuedChanges, LAMBDA c : c.kind = "Change")

\* C20: the content ids of the entity/content-id map are pairwise distinct;
\* the map lists, in queuing order, exactly the content ids of the insert and
\* update operations held by the changesets of the parts list, each of which
\* belongs to one operation only; an open changeset is the last part; an
\* operation queued through call has no pair, and after an execute every
\* response entry whose id is in no pair is reported without entity.
C20_MapConsistent ==
    /\ \A k1, k2 \in DOMAIN _content_id_to_entity_map :
          _content_id_to_entity_map[k1][2] = _content_id_to_entity_map[k2][2] => k1 = k2
    /\ \A i \in DOMAIN _parts : _parts[i] \in DOMAIN heap
    /\ Len(_content_id_to_entity_map) = Len(QueuedSaves)
    /\ \A k \in DOMAIN _content_id_to_entity_map :
          /\ _content_id_to_entity_map[k][2] = QueuedSaves[k].content_id
          /\ QueuedSaves[k].method \in {CREATE, UPDATE}
          /\ Cardinality({j \in DOMAIN QueuedChanges :
                 QueuedChanges[j].content_id = _content_id_to_entity_map[k][2]}) = 1
    /\ _changeset # NoChangeSet => (Len(_parts) > 0 /\ _changeset = Last(_parts))
    /\ \A j \in DOMAIN QueuedChanges :
          QueuedChanges[j].kind # "Change"
          => \A k \in DOMAIN _content_id_to_entity_map :
                _content_id_to_entity_map[k][2] # QueuedChanges[j].content_id
    /\ Correlated =>
          \A i \in DOMAIN ret.response_raw :
              (\A k \in DOMAIN ret.id_to_entity :
                  ret.id_to_entity[k][2] # ret.response_raw[i].id)
              => /\ i \in UnmatchedIdx
                 /\ LeftoverPos(i) \in DOMAIN ret.responses
                 /\ ret.responses[LeftoverPos(i)][1] = None
                 /\ ret.responses[LeftoverPos(i)][2] = ret.response_raw[i].status

\* a save is queued in the first, closed changeset and a call in the second,
\* open one: one pair for two operations
C20_Witness ==
    /\ Len(_parts) = 2
    /\ _changeset = _parts[2]
    /\ Len(_content_id_to_entity_map) = 1
    /\ _content_id_to_entity_map[1][2][1] = _parts[1]
    /\ Len(heap[_changeset]._changes) = 1
    /\ heap[_changeset]._changes[1].kind = "ActionChange"

====
